---- MODULE Spec2Model ----
(***************************************************************************)
(* Property Service data layer (redesign/src/services/propertyService.js): *)
(* alias tables, normalisation of raw store records into frontend          *)
(* Property objects, and the asynchronous read / write operations against  *)
(* the remote store.                                                       *)
(***************************************************************************)
EXTENDS Integers, Sequences, FiniteSets, TLC

VARIABLES store, production, calls, probe, page, admin, runs

vars == <<store, production, calls, probe, page, admin, runs>>

(***************************************************************************)
(* JavaScript values.  Every value is a record tagged by its type, so that *)
(* values of different types can be compared.                              *)
(***************************************************************************)
Undef == [t |-> "undefined"]
Null == [t |-> "null"]
Str(s) == [t |-> "string", s |-> s]
Num(n) == [t |-> "number", n |-> n]
Bool(b) == [t |-> "boolean", b |-> b]
Arr(a) == [t |-> "array", a |-> a]
Obj(o) == [t |-> "object", o |-> o]
Fn(name) == [t |-> "function", f |-> name]

EmptyObj == Obj(<<>>)

\* Truthiness as used by `||` and `&&`: undefined, null, '', 0 and false are
\* falsy; every object, array (even an empty one) and function is truthy.
Truthy(v) ==
  CASE v.t = "undefined" -> FALSE
    [] v.t = "null" -> FALSE
    [] v.t = "string" -> v.s # ""
    [] v.t = "number" -> v.n # 0
    [] v.t = "boolean" -> v.b
    [] OTHER -> TRUE

\* a || b
Or(a, b) == IF Truthy(a) THEN a ELSE b

\* a && b
And(a, b) == IF Truthy(a) THEN b ELSE a

\* The members every plain object inherits from Object.prototype.
ObjectPrototypeKeys ==
  {"constructor", "toString", "toLocaleString", "valueOf", "hasOwnProperty",
   "isPrototypeOf", "propertyIsEnumerable", "__defineGetter__",
   "__defineSetter__", "__lookupGetter__", "__lookupSetter__", "__proto__"}

\* obj[key] / obj.key: an own property, else the inherited member, else
\* undefined.  A primitive has none of the keys read here.
GetProp(v, key) ==
  IF v.t = "object"
    THEN IF key \in DOMAIN v.o THEN v.o[key]
         ELSE IF key = "__proto__" THEN EmptyObj
         ELSE IF key = "constructor" THEN Fn("Object")
         ELSE IF key \in ObjectPrototypeKeys THEN Fn(key)
         ELSE Undef
    ELSE Undef

Digit == <<"0", "1", "2", "3", "4", "5", "6", "7", "8", "9">>

RECURSIVE NatToString(_)
NatToString(n) ==
  IF n < 10 THEN Digit[n + 1] ELSE NatToString(n \div 10) \o Digit[(n % 10) + 1]

RECURSIVE JoinWith(_, _)
JoinWith(words, sep) ==
  IF Len(words) = 0 THEN ""
  ELSE IF Len(words) = 1 THEN words[1]
  ELSE words[1] \o sep \o JoinWith(Tail(words), sep)

\* String conversion as done by a template literal or a property key.
JSString(v) ==
  CASE v.t = "string" -> v.s
    [] v.t = "number" -> NatToString(v.n)
    [] v.t = "boolean" -> IF v.b THEN "true" ELSE "false"
    [] v.t = "undefined" -> "undefined"
    [] v.t = "null" -> "null"
    [] v.t = "array" -> JoinWith(v.a, ",")
    [] v.t = "function" -> "function " \o v.f \o "() { [native code] }"
    [] OTHER -> "[object Object]"

(***************************************************************************)
(* String functions of the standard library used by the service.           *)
(***************************************************************************)
UpperLetters ==
  <<"A", "B", "C", "D", "E", "F", "G", "H", "I", "J", "K", "L", "M",
    "N", "O", "P", "Q", "R", "S", "T", "U", "V", "W", "X", "Y", "Z">>

LowerLetters ==
  <<"a", "b", "c", "d", "e", "f", "g", "h", "i", "j", "k", "l", "m",
    "n", "o", "p", "q", "r", "s", "t", "u", "v", "w", "x", "y", "z">>

IndexIn(seq, c) == IF \E i \in DOMAIN seq : seq[i] = c
                   THEN CHOOSE i \in DOMAIN seq : seq[i] = c
                   ELSE 0

toLowerChar(c) ==
  IF IndexIn(UpperLetters, c) # 0 THEN LowerLetters[IndexIn(UpperLetters, c)] ELSE c

toUpperChar(c) ==
  IF IndexIn(LowerLetters, c) # 0 THEN UpperLetters[IndexIn(LowerLetters, c)] ELSE c

charAt(s, i) == IF i + 1 <= Len(s) THEN SubSeq(s, i + 1, i + 1) ELSE ""

slice(s, from) == SubSeq(s, from + 1, Len(s))

\* A state key taken as it is in the store.
toLowerCaseOmitted(s) == s

RECURSIVE toLowerCase(_)
toLowerCase(s) ==
  IF Len(s) = 0 THEN "" ELSE toLowerChar(charAt(s, 0)) \o toLowerCase(slice(s, 1))

RECURSIVE toUpperCase(_)
toUpperCase(s) ==
  IF Len(s) = 0 THEN "" ELSE toUpperChar(charAt(s, 0)) \o toUpperCase(slice(s, 1))

IsWhitespace(c) == c \in {" ", "\t", "\n"}

\* s.replace(/\s+/g, "-"): every maximal run of whitespace becomes one dash.
RECURSIVE ReplaceRuns(_, _)
ReplaceRuns(s, inRun) ==
  IF Len(s) = 0 THEN ""
  ELSE IF IsWhitespace(charAt(s, 0))
    THEN (IF inRun THEN "" ELSE "-") \o ReplaceRuns(slice(s, 1), TRUE)
    ELSE charAt(s, 0) \o ReplaceRuns(slice(s, 1), FALSE)

replaceWhitespace(s) == ReplaceRuns(s, FALSE)

\* s.split(sep) for a one-character separator: always at least one segment.
RECURSIVE SplitFrom(_, _, _)
SplitFrom(s, sep, cur) ==
  IF Len(s) = 0 THEN <<cur>>
  ELSE IF charAt(s, 0) = sep
    THEN <<cur>> \o SplitFrom(slice(s, 1), sep, "")
    ELSE SplitFrom(slice(s, 1), sep, cur \o charAt(s, 0))

split(s, sep) == SplitFrom(s, sep, "")

\* word => word.charAt(0).toUpperCase() + word.slice(1)
Capitalize(word) == toUpperCase(charAt(word, 0)) \o slice(word, 1)

\* id.split('-').map(Capitalize).join(' ')
TitleCase(id) ==
  LET words == split(id, "-")
  IN JoinWith([i \in DOMAIN words |-> Capitalize(words[i])], " ")

(***************************************************************************)
(* Alias tables (static object literals) and alias resolution.             *)
(***************************************************************************)
\* An object literal { key: 'value', ... } given as its <<key, value>> pairs.
ObjectLiteral(pairs) ==
  Obj([k \in {p[1] : p \in pairs} |-> Str((CHOOSE p \in pairs : p[1] = k)[2])])

propertyIdMappingEntries ==
  {<<"westover-pointe", "westover-pointe">>,
   <<"hunters-crossing", "hunters-crossing">>,
   <<"liberty-pointe", "liberty-pointe">>,
   <<"meridian-south", "meridian-south">>,
   <<"meridian-north", "meridian-north">>,
   <<"iron-ridge", "iron-ridge">>,
   <<"landmark-glen-station", "landmark">>,
   <<"mariners-pointe", "mariners-pointe">>,
   <<"metro-pointe", "metro-pointe">>,
   <<"scotland-heights", "scotland-heights">>,
   <<"stonegate-iron-ridge", "stonegate">>,
   <<"the-flats", "flats">>,
   <<"the-ridge", "ridge">>,
   <<"yorkshire-apartments", "yorkshire">>,
   <<"aspen-court", "aspen-court">>,
   <<"cherry-hill-towers", "cherry-hill-towers">>,
   <<"fox-pointe", "fox-pointe">>,
   <<"haven-new-providence", "haven">>,
   <<"holly-court", "holly-court">>,
   <<"joralemon", "joralemon">>,
   <<"orchard-park", "orchard-park">>,
   <<"overlook-at-flanders", "overlook">>,
   <<"parc-at-cherry-hill", "parcCherry">>,
   <<"parc-at-lyndhurst", "parcLyn">>,
   <<"parc-at-maplewood-station", "parcMaple">>,
   <<"parc-at-roxbury", "parcRox">>,
   <<"silverlake", "silverlake">>,
   <<"the-brunswick", "brunswick">>,
   <<"the-colony-at-chews-landing", "colony">>,
   <<"the-george-new-brunswick", "georgeNB">>,
   <<"the-monroe", "monroe">>,
   <<"the-woodlands", "woodlands">>,
   <<"millcroft", "millcroft">>,
   <<"pointe-at-northern-woods", "pointeNW">>,
   <<"ponderosa", "ponderosa">>,
   <<"reserves-at-arlington", "reserves-arlington">>,
   <<"reserves-at-northern-woods", "reservesNW">>,
   <<"1869-west", "1869west">>,
   <<"214-vine", "214vine">>,
   <<"aston-pointe", "aston-pointe">>,
   <<"cheltenham-station", "cheltenham-station">>,
   <<"cosmopolitan", "cosmopolitan">>,
   <<"franklin-commons", "franklin-commons">>,
   <<"greenspring", "greenspring">>,
   <<"lehigh-square", "lehigh">>,
   <<"lehigh-square-b", "lehigh-B">>,
   <<"metal-works", "metal-works">>,
   <<"parc-at-west-pointe", "parcWest">>,
   <<"river-oaks", "river-oaks">>,
   <<"river-pointe", "river-pointe">>,
   <<"springhouse-townhomes", "springhouse">>,
   <<"terminal-21", "terminal21">>,
   <<"the-addison", "addison">>,
   <<"the-alden", "alden">>,
   <<"the-commons", "commons">>,
   <<"the-nolan", "nolan">>,
   <<"the-residence-at-st-josephs", "residence-josephs">>,
   <<"the-view-at-north-hills", "viewNorth">>,
   <<"the-wellington", "wellington">>,
   <<"valley-park", "valley-park">>,
   <<"chesterfield-flats", "chesterfield-flats">>,
   <<"chesapeake-pointe", "chesapeake-pointe">>,
   <<"harborstone", "harborstone">>,
   <<"james-river-pointe", "james-river-pointe">>,
   <<"pointe-at-river-city", "pointe-river-city">>,
   <<"reserves-at-tidewater", "reserves-tidewater">>}

\* A table in which the value of one entry is the key of another.
propertyIdMappingChained ==
  ObjectLiteral(propertyIdMappingEntries \cup {<<"flats", "the-flats-east">>})

propertyIdMapping == ObjectLiteral(propertyIdMappingEntries)

stateMappingEntries ==
  {<<"newJersey", "New Jersey">>,
   <<"delaware", "Delaware">>,
   <<"indiana", "Indiana">>,
   <<"maryland", "Maryland">>,
   <<"ohio", "Ohio">>,
   <<"pennsylvania", "Pennsylvania">>,
   <<"virginia", "Virginia">>}

stateMapping == ObjectLiteral(stateMappingEntries)

\* propertyIdMapping[propertyId] || propertyId
mapPropertyId(propertyId) ==
  Or(GetProp(propertyIdMapping, JSString(propertyId)), propertyId)

\* stateMapping[state] || state
formatState(state) ==
  Or(GetProp(stateMapping, JSString(state)), state)

(***************************************************************************)
(* Normalisation of a raw store record into a frontend Property.           *)
(***************************************************************************)
PlaceholderImages == Arr(<<"/logo.png">>)

\* A staff entry whose fields are not defaulted to ''.
StaffEntryNoDefault(role) ==
  [name |-> And(role, GetProp(role, "name")),
   email |-> And(role, GetProp(role, "email"))]

\* A staff entry with the two fields exchanged.
StaffEntrySwapped(role) ==
  [name |-> Or(And(role, GetProp(role, "email")), Str("")),
   email |-> Or(And(role, GetProp(role, "name")), Str(""))]

\* A staff entry defaulted as a whole: both fields '' unless both are there.
StaffEntryWholesale(role) ==
  IF Truthy(And(role, GetProp(role, "name"))) /\ Truthy(And(role, GetProp(role, "email")))
    THEN [name |-> GetProp(role, "name"), email |-> GetProp(role, "email")]
    ELSE [name |-> Str(""), email |-> Str("")]

\* { name: (role && role.name) || '', email: (role && role.email) || '' }
StaffEntry(role) ==
  [name |-> Or(And(role, GetProp(role, "name")), Str("")),
   email |-> Or(And(role, GetProp(role, "email")), Str(""))]

processPropertyData(propertyName, propertyDetails) ==
  LET propertyId == replaceWhitespace(toLowerCase(propertyName))
      vp == Or(GetProp(propertyDetails, "vp"), EmptyObj)
      rem == Or(GetProp(propertyDetails, "rem"), EmptyObj)
      rsd == Or(GetProp(propertyDetails, "rsd"), EmptyObj)
      ds == Or(GetProp(propertyDetails, "ds"), EmptyObj)
      pm == Or(GetProp(propertyDetails, "pm"), EmptyObj)
  IN [id |-> Str(propertyId),
      name |-> Str(propertyName),
      address |-> Or(GetProp(propertyDetails, "address"), Str("")),
      description |-> Or(GetProp(propertyDetails, "description"), Str("")),
      units |-> Or(GetProp(propertyDetails, "unit"), Str("")),
      yearBuilt |-> Or(GetProp(propertyDetails, "yearBuilt"), Str("")),
      renovated |-> Or(GetProp(propertyDetails, "renovated"), Str("")),
      amenities |-> Or(GetProp(propertyDetails, "amenities"), Arr(<<>>)),
      contact |-> [manager |-> Or(And(pm, GetProp(pm, "name")), Str("")),
                   phone |-> Or(GetProp(propertyDetails, "phone"), Str("")),
                   email |-> Or(And(pm, GetProp(pm, "email")), Str(""))],
      staff |-> [vp |-> StaffEntry(vp),
                 rem |-> StaffEntry(rem),
                 rsd |-> StaffEntry(rsd),
                 ds |-> StaffEntry(ds),
                 pm |-> StaffEntry(pm)],
      images |-> Or(GetProp(propertyDetails, "images"), PlaceholderImages)]

\* The object literal of getPropertyDetails reading the unit count from the
\* canonical key `units` instead of the raw key `unit`.
formatPropertyUnitsKey(propertyId, mappedPropertyId, propertyData) ==
  [processPropertyData("", propertyData) EXCEPT
     !.id = propertyId,
     !.name = Or(GetProp(propertyData, "name"), Str(TitleCase(mappedPropertyId.s))),
     !.units = Or(GetProp(propertyData, "units"), Str(""))]

\* The object literal built by getPropertyDetails for a record that exists;
\* mappedPropertyId is a string here (split is called on it).
formatProperty(propertyId, mappedPropertyId, propertyData) ==
  LET propertyName == Str(TitleCase(mappedPropertyId.s))
      pm == GetProp(propertyData, "pm")
  IN [id |-> propertyId,
      name |-> Or(GetProp(propertyData, "name"), propertyName),
      address |-> Or(GetProp(propertyData, "address"), Str("")),
      description |-> Or(GetProp(propertyData, "description"), Str("")),
      units |-> Or(GetProp(propertyData, "unit"), Str("")),
      yearBuilt |-> Or(GetProp(propertyData, "yearBuilt"), Str("")),
      renovated |-> Or(GetProp(propertyData, "renovated"), Str("")),
      amenities |-> Or(GetProp(propertyData, "amenities"), Arr(<<>>)),
      contact |-> [manager |-> Or(And(pm, GetProp(pm, "name")), Str("")),
                   phone |-> Or(GetProp(propertyData, "phone"), Str("")),
                   email |-> Or(And(pm, GetProp(pm, "email")), Str(""))],
      staff |-> [vp |-> StaffEntry(GetProp(propertyData, "vp")),
                 rem |-> StaffEntry(GetProp(propertyData, "rem")),
                 rsd |-> StaffEntry(GetProp(propertyData, "rsd")),
                 ds |-> StaffEntry(GetProp(propertyData, "ds")),
                 pm |-> StaffEntry(pm)],
      images |-> Or(GetProp(propertyData, "images"), PlaceholderImages)]

\* A normaliser that writes the placeholder image into the record it reads.
processPropertyDataInPlace(propertyName, propertyDetails) ==
  [raw |-> Obj(("images" :> Or(GetProp(propertyDetails, "images"), PlaceholderImages))
                 @@ propertyDetails.o),
   propertyIdMapping |-> propertyIdMapping,
   stateMapping |-> stateMapping]

\* The objects a call of processPropertyData can reach, as the call leaves
\* them: its body is const declarations of values read from the argument
\* and one returned object literal; it assigns to no property of the raw
\* record and to no entry of the alias tables.
processPropertyDataEffect(propertyName, propertyDetails) ==
  [raw |-> propertyDetails,
   propertyIdMapping |-> propertyIdMapping,
   stateMapping |-> stateMapping]

\* The same for the object literal of getPropertyDetails: propertyData,
\* read from the snapshot, is only read.
formatPropertyEffect(propertyId, mappedPropertyId, propertyData) ==
  [raw |-> propertyData,
   propertyIdMapping |-> propertyIdMapping,
   stateMapping |-> stateMapping]

\* The development fallback returned for a record that does not exist.
mockProperty(propertyId) ==
  [id |-> propertyId,
   name |-> Str(TitleCase(propertyId.s)),
   address |-> Str("123 Main St, City, State 12345"),
   description |-> Str("This is a sample property description. Real data needs to be loaded via the Admin page."),
   units |-> Str("100"),
   yearBuilt |-> Str("2010"),
   renovated |-> Str("2020"),
   amenities |-> Arr(<<"Swimming Pool", "Fitness Center", "Pet Friendly">>),
   contact |-> [manager |-> Str("John Doe"),
                phone |-> Str("(555) 123-4567"),
                email |-> Str("john.doe@example.com")],
   staff |-> [vp |-> [name |-> Str("Jane Smith"), email |-> Str("jane.smith@example.com")],
              rem |-> [name |-> Str("Robert Johnson"), email |-> Str("robert.johnson@example.com")],
              rsd |-> [name |-> Str("Emily Davis"), email |-> Str("emily.davis@example.com")],
              ds |-> [name |-> Str("Michael Wilson"), email |-> Str("michael.wilson@example.com")],
              pm |-> [name |-> Str("Sarah Thompson"), email |-> Str("sarah.thompson@example.com")]],
   images |-> Arr(<<"/logo.png">>)]

(***************************************************************************)
(* The remote store: properties/{StateName}/{propertyKey} -> raw record.   *)
(* store maps each state name that has records to the mapping from its     *)
(* property keys to raw records.                                           *)
(***************************************************************************)
EmptyStore == <<>>

\* obj[k] = v
Put(f, k, v) == [x \in DOMAIN f \cup {k} |-> IF x = k THEN v ELSE f[x]]

\* The key segments of a slash-separated path; empty segments are skipped.
Segments(path) == SelectSeq(split(path, "/"), LAMBDA seg : seg # "")

NoSnapshot == [exists |-> FALSE, val |-> Undef]

\* The snapshot a one-shot read of `path` is served with: exists() and val().
SnapshotAt(st, path) ==
  LET segs == Segments(path)
      absent == [exists |-> FALSE, val |-> Null]
  IN IF Len(segs) = 0 \/ segs[1] # "properties" THEN absent
     ELSE IF Len(segs) = 1
       THEN IF DOMAIN st = {} THEN absent
            ELSE [exists |-> TRUE, val |-> Obj([s \in DOMAIN st |-> Obj(st[s])])]
     ELSE IF segs[2] \notin DOMAIN st THEN absent
     ELSE IF Len(segs) = 2 THEN [exists |-> TRUE, val |-> Obj(st[segs[2]])]
     ELSE IF Len(segs) = 3 /\ segs[3] \in DOMAIN st[segs[2]]
       THEN [exists |-> TRUE, val |-> st[segs[2]][segs[3]]]
     ELSE absent

\* update(ref(database, path), data): the fields of data are merged into the
\* value already at the path.
SetAtMerge(st, path, data) ==
  LET segs == Segments(path)
      old == IF segs[2] \in DOMAIN st THEN st[segs[2]] ELSE <<>>
      was == IF segs[3] \in DOMAIN old THEN old[segs[3]].o ELSE <<>>
  IN Put(st, segs[2],
         Put(old, segs[3],
             Obj([k \in DOMAIN was \cup DOMAIN data.o |->
                    IF k \in DOMAIN data.o THEN data.o[k] ELSE was[k]])))

\* set(ref(database, path), data): the value at the path becomes data.
SetAt(st, path, data) ==
  LET segs == Segments(path)
      old == IF segs[2] \in DOMAIN st THEN st[segs[2]] ELSE <<>>
  IN Put(st, segs[2], Put(old, segs[3], data))

\* Object.entries visits the keys of a snapshot value in the store's key
\* order (ascending by character code).
CharOrder == <<" ", "-">> \o Digit \o UpperLetters \o <<"_">> \o LowerLetters

RECURSIVE KeyLess(_, _)
KeyLess(a, b) ==
  IF Len(b) = 0 THEN FALSE
  ELSE IF Len(a) = 0 THEN TRUE
  ELSE IF charAt(a, 0) = charAt(b, 0) THEN KeyLess(slice(a, 1), slice(b, 1))
  ELSE IndexIn(CharOrder, charAt(a, 0)) < IndexIn(CharOrder, charAt(b, 0))

RECURSIVE KeysInOrder(_)
KeysInOrder(keys) ==
  IF keys = {} THEN <<>>
  ELSE LET first == CHOOSE k \in keys : \A other \in keys \ {k} : KeyLess(k, other)
       IN <<first>> \o KeysInOrder(keys \ {first})

entries(obj) == KeysInOrder(DOMAIN obj.o)

(***************************************************************************)
(* Settled promises and the callbacks of the data access functions.        *)
(***************************************************************************)
Resolved(v) == [status |-> "resolved", value |-> v]
Rejected(e) == [status |-> "rejected", value |-> e]

MappingValue(m) == [t |-> "mapping", m |-> m]
PropertyValue(p) == [t |-> "Property", p |-> p]
ErrorValue(msg) == [t |-> "error", message |-> msg]

\* A loop that files each Property under its store key instead of its id.
RECURSIVE ProcessEntriesByStoreKey(_, _, _)
ProcessEntriesByStoreKey(rawData, names, processedData) ==
  IF Len(names) = 0 THEN processedData
  ELSE LET formattedProperty == processPropertyData(names[1], rawData.o[names[1]])
       IN ProcessEntriesByStoreKey(rawData, Tail(names),
                                   Put(processedData, names[1], formattedProperty))

\* for (const [propertyName, propertyDetails] of Object.entries(rawData))
\*   processedData[formattedProperty.id] = formattedProperty
RECURSIVE ProcessEntries(_, _, _)
ProcessEntries(rawData, names, processedData) ==
  IF Len(names) = 0 THEN processedData
  ELSE LET formattedProperty == processPropertyData(names[1], rawData.o[names[1]])
       IN ProcessEntries(rawData, Tail(names),
                         Put(processedData, formattedProperty.id.s, formattedProperty))

\* for (const [state, stateProperties] of Object.entries(rawData))
\*   processedData[state.toLowerCase()] = {}; then one entry per property
RECURSIVE ProcessStates(_, _, _)
ProcessStates(rawData, states, processedData) ==
  IF Len(states) = 0 THEN processedData
  ELSE LET stateProperties == rawData.o[states[1]]
           stateKey == toLowerCase(states[1])
       IN ProcessStates(rawData, Tail(states),
                        Put(processedData, stateKey,
                            ProcessEntries(stateProperties, entries(stateProperties), <<>>)))

\* getAllProperties: the snapshot callback passed to onValue.
getAllPropertiesOnValue(snapshot) ==
  IF snapshot.exists
    THEN Resolved(MappingValue(ProcessStates(snapshot.val, entries(snapshot.val), <<>>)))
    ELSE Resolved(MappingValue(<<>>))

\* A snapshot callback that resolves with null when the state has no data.
getPropertiesByStateOnValueNull(snapshot) ==
  IF snapshot.exists
    THEN Resolved(MappingValue(ProcessEntries(snapshot.val, entries(snapshot.val), <<>>)))
    ELSE Resolved(Null)

\* getPropertiesByState: the snapshot callback passed to onValue.
getPropertiesByStateOnValue(snapshot) ==
  IF snapshot.exists
    THEN Resolved(MappingValue(ProcessEntries(snapshot.val, entries(snapshot.val), <<>>)))
    ELSE Resolved(MappingValue(<<>>))

\* An error callback that swallows the failure and resolves with {}.
onValueErrorSwallowed(error) == Resolved(MappingValue(<<>>))

\* getAllProperties / getPropertiesByState: the error callback passed to onValue.
onValueError(error) == Rejected(error)

\* A .then callback whose development fallback test is inverted.
getPropertyDetailsThenInverted(propertyId, mappedPropertyId, isProduction, snapshot) ==
  IF snapshot.exists
    THEN IF mappedPropertyId.t = "string"
           THEN Resolved(PropertyValue(formatProperty(propertyId, mappedPropertyId, snapshot.val)))
           ELSE Rejected(ErrorValue("TypeError: mappedPropertyId.split is not a function"))
    ELSE IF isProduction
           THEN Resolved(PropertyValue(mockProperty(propertyId)))
           ELSE Resolved(Null)

\* getPropertyDetails: the .then callback of get(propertyRef).  Calling split
\* on a mappedPropertyId that is no string throws inside the callback, which
\* the .catch turns into a rejection.
getPropertyDetailsThen(propertyId, mappedPropertyId, isProduction, snapshot) ==
  IF snapshot.exists
    THEN IF mappedPropertyId.t = "string"
           THEN Resolved(PropertyValue(formatProperty(propertyId, mappedPropertyId, snapshot.val)))
           ELSE Rejected(ErrorValue("TypeError: mappedPropertyId.split is not a function"))
    ELSE IF ~isProduction
           THEN Resolved(PropertyValue(mockProperty(propertyId)))
           ELSE Resolved(Null)

\* getPropertyDetails: the .catch callback of get(propertyRef).
getPropertyDetailsCatch(error) == Rejected(error)

\* savePropertyData: the .then callback of set(propertyRef, propertyData).
savePropertyDataThen == Resolved(Bool(TRUE))

\* savePropertyData: the .catch callback rethrows.
savePropertyDataCatch(error) == Rejected(error)

(***************************************************************************)
(* Inputs of the model.                                                    *)
(***************************************************************************)
\* At most this many invocations of the data access functions per behaviour.
MaxCalls == 2

\* At most this many keys are present in a generated raw record.
MaxKeys == 2

RoleKeys == {"vp", "rem", "rsd", "ds", "pm"}

RawKeys ==
  {"name", "address", "description", "unit", "yearBuilt", "renovated",
   "amenities", "phone", "images"} \cup RoleKeys

SampleText ==
  ("name" :> "The Flats") @@ ("address" :> "500 Westover Dr") @@
  ("description" :> "Garden apartments") @@ ("unit" :> "216") @@
  ("yearBuilt" :> "1998") @@ ("renovated" :> "2015") @@
  ("phone" :> "(555) 123-4567")

RoleRecords ==
  {Obj(<<>>),
   Obj("name" :> Str("Sarah Thompson")),
   Obj("email" :> Str("sarah.thompson@example.com")),
   Obj(("name" :> Str("Sarah Thompson")) @@ ("email" :> Str("sarah.thompson@example.com")))}

\* The values a raw record may hold under a key (the store is loosely typed).
ValuesFor(k) ==
  IF k \in RoleKeys THEN RoleRecords
  ELSE IF k = "images" THEN {Arr(<<>>), Arr(<<"/img/a.png">>), Arr(<<"/img/a.png", "/img/b.png">>)}
  ELSE IF k = "amenities" THEN {Arr(<<>>), Arr(<<"Pool">>), Arr(<<"Pool", "Gym">>)}
  ELSE IF k = "unit" THEN {Str(""), Str("216"), Num(216), Num(0)}
  ELSE {Str(""), Str(SampleText[k])}

RECURSIVE RecordsOver(_)
RecordsOver(ks) ==
  IF ks = {} THEN {<<>>}
  ELSE LET k == CHOOSE x \in ks : TRUE
       IN {Put(f, k, v) : f \in RecordsOver(ks \ {k}), v \in ValuesFor(k)}

FullRecord ==
  Obj([k \in RawKeys |->
        IF k \in RoleKeys
          THEN Obj(("name" :> Str("Sarah Thompson")) @@ ("email" :> Str("sarah.thompson@example.com")))
        ELSE IF k = "images" THEN Arr(<<"/img/a.png">>)
        ELSE IF k = "amenities" THEN Arr(<<"Pool", "Gym">>)
        ELSE Str(SampleText[k])])

\* Raw records: every choice of at most MaxKeys keys and values, and a full one.
RawRecords ==
  {Obj(f) : f \in UNION {RecordsOver(ks) :
                          ks \in {s \in SUBSET RawKeys : Cardinality(s) <= MaxKeys}}}
    \cup {FullRecord}

\* Store keys and route slugs the normaliser is applied to.
StoreKeyNames == {"flats", "the-flats", "Yorkshire Apts", "parcCherry"}
RouteSlugs == {"the-flats", "flats", "parc-at-cherry-hill", "unknown-property", ""}

\* Strings alias resolution is applied to: every key and value of both tables,
\* unmapped strings, the empty string and names of inherited members.
AliasInputs ==
  DOMAIN propertyIdMapping.o \cup {propertyIdMapping.o[k].s : k \in DOMAIN propertyIdMapping.o}
    \cup DOMAIN stateMapping.o \cup {stateMapping.o[k].s : k \in DOMAIN stateMapping.o}
    \cup {"", "unknown-property", "texas", "new jersey"} \cup ObjectPrototypeKeys

\* Arguments of the data access functions in the store protocol.
StateArgs == {"maryland", "Maryland"}
PropertyArgs == {"the-flats", "flats"}

SavedRecords ==
  {Obj(("name" :> Str("The Flats")) @@ ("address" :> Str("500 Westover Dr")) @@
       ("unit" :> Str("216")) @@
       ("pm" :> Obj(("name" :> Str("Sarah Thompson")) @@
                    ("email" :> Str("sarah.thompson@example.com"))))),
   Obj(("address" :> Str("12 Ridge Rd")) @@ ("phone" :> Str("(555) 123-4567")) @@
       ("vp" :> Obj("name" :> Str("Jane Smith"))))}

SeededStore ==
  "Maryland" :> ("flats" :> Obj(("name" :> Str("The Flats")) @@ ("renovated" :> Str("2015"))))

InitialStores == {EmptyStore, SeededStore}

\* Store contents the snapshot callbacks are applied to: all but one of the
\* state names at most, each with at most MaxKeys records under store keys.
SnapshotStateNames == {"Maryland", "New Jersey", "maryland"}

SnapshotKeyNames == StoreKeyNames \cup {"yorkshire apts"}

\* The record held under a store key: one per key, so that a read of the
\* wrong key shows.
RecordUnder(key) ==
  Obj(("address" :> Str("1 " \o key \o " Way")) @@ ("unit" :> Str("216")))

StateContents ==
  {[k \in ks |-> RecordUnder(k)] :
     ks \in {s \in SUBSET SnapshotKeyNames : Cardinality(s) \in 1..MaxKeys}}

SnapshotStores ==
  UNION {[ss -> StateContents] :
           ss \in {s \in SUBSET SnapshotStateNames : s # SnapshotStateNames}}

TransportErrors == {ErrorValue("PERMISSION_DENIED"), ErrorValue("NETWORK_ERROR")}

(***************************************************************************)
(* The data access functions: each invocation issues one request against   *)
(* the store; the store later serves it or reports a transport failure.    *)
(***************************************************************************)
ReadOps == {"getAllProperties", "getPropertiesByState", "getPropertyDetails"}

NoProbe == [fn |-> "none"]

NewCall(op, state, propertyId, data, mappedPropertyId, path) ==
  [op |-> op, state |-> state, propertyId |-> propertyId, data |-> data,
   mappedPropertyId |-> mappedPropertyId, path |-> path,
   status |-> "pending", value |-> Undef,
   snapshot |-> NoSnapshot, failure |-> Undef, reads |-> 0, writes |-> 0,
   listening |-> TRUE]

\* A write path built from the alias-resolved state and property key.
savePropertyDataPathResolved(state, property) ==
  "properties/" \o JSString(formatState(state)) \o "/" \o JSString(mapPropertyId(property))

\* `properties/${state}/${property}`
savePropertyDataPath(state, property) ==
  "properties/" \o JSString(state) \o "/" \o JSString(property)

\* `properties/${formattedState}`
getPropertiesByStatePath(state) ==
  "properties/" \o JSString(formatState(state))

\* A read path built from the route parameters as they are.
getPropertyDetailsPathLiteral(state, propertyId) ==
  "properties/" \o JSString(state) \o "/" \o JSString(propertyId)

\* `properties/${formattedState}/${mappedPropertyId}`
getPropertyDetailsPath(state, propertyId) ==
  "properties/" \o JSString(formatState(state)) \o "/" \o JSString(mapPropertyId(propertyId))

\* No page component is mounted.
NoPage == [component |-> "none"]

\* useState(false), useState(null) of the admin data initializer.
AdminIdle == [loading |-> FALSE, status |-> Null]

Init ==
  /\ store \in InitialStores
  /\ production \in BOOLEAN
  /\ calls = <<>>
  /\ probe = NoProbe
  /\ page = NoPage
  /\ admin = AdminIdle
  /\ runs = <<>>

getAllProperties ==
  /\ Len(calls) < MaxCalls
  /\ calls' = Append(calls, NewCall("getAllProperties", Undef, Undef, Undef, Undef, "properties"))
  /\ UNCHANGED <<store, production, probe, page, admin, runs>>

getPropertiesByState(state) ==
  /\ Len(calls) < MaxCalls
  /\ calls' = Append(calls, NewCall("getPropertiesByState", state, Undef, Undef, Undef,
                                    getPropertiesByStatePath(state)))
  /\ UNCHANGED <<store, production, probe, page, admin, runs>>

getPropertyDetails(state, propertyId) ==
  /\ Len(calls) < MaxCalls
  /\ calls' = Append(calls, NewCall("getPropertyDetails", state, propertyId, Undef,
                                    mapPropertyId(propertyId),
                                    getPropertyDetailsPath(state, propertyId)))
  /\ UNCHANGED <<store, production, probe, page, admin, runs>>

savePropertyData(state, property, propertyData) ==
  /\ Len(calls) < MaxCalls
  /\ calls' = Append(calls, NewCall("savePropertyData", state, property, propertyData, Undef,
                                    savePropertyDataPath(state, property)))
  /\ UNCHANGED <<store, production, probe, page, admin, runs>>

\* The callback a read runs when the store serves it with a snapshot.
OnSnapshot(call, snapshot) ==
  CASE call.op = "getAllProperties" -> getAllPropertiesOnValue(snapshot)
    [] call.op = "getPropertiesByState" -> getPropertiesByStateOnValue(snapshot)
    [] call.op = "getPropertyDetails" ->
         getPropertyDetailsThen(call.propertyId, call.mappedPropertyId, production, snapshot)

\* The callback a call runs when the store reports a transport failure.
OnFailure(call, error) ==
  CASE call.op \in {"getAllProperties", "getPropertiesByState"} -> onValueError(error)
    [] call.op = "getPropertyDetails" -> getPropertyDetailsCatch(error)
    [] call.op = "savePropertyData" -> savePropertyDataCatch(error)

\* resolve(value) / reject(error): the first settlement of a promise wins,
\* a later one has no effect.
Settle(call, outcome) ==
  IF call.status = "pending"
    THEN [call EXCEPT !.status = outcome.status, !.value = outcome.value]
    ELSE call

\* A subscription that stays registered and is served every later value.
onlyOnceOff == FALSE

\* { onlyOnce: true }
onlyOnce == TRUE

\* Whether the store keeps serving a call after it served it once: get()
\* is a single request, an onValue listener is removed when onlyOnce is set.
StaysSubscribed(call) ==
  call.op \in {"getAllProperties", "getPropertiesByState"} /\ ~onlyOnce

\* A store client that answers every pending read of the same operation with
\* the snapshot served for call i.
ReadServedShared(i) ==
  /\ calls[i].op \in ReadOps
  /\ calls[i].listening
  /\ LET snapshot == SnapshotAt(store, calls[i].path)
         outcome == OnSnapshot(calls[i], snapshot)
     IN calls' = [j \in DOMAIN calls |->
                    IF j = i
                      THEN [Settle(calls[j], outcome)
                              EXCEPT !.snapshot = snapshot, !.reads = @ + 1,
                                     !.listening = StaysSubscribed(calls[i])]
                    ELSE IF calls[j].op = calls[i].op
                      THEN Settle(calls[j], outcome)
                    ELSE calls[j]]
  /\ UNCHANGED <<store, production, probe, page, admin, runs>>

\* The store serves a read: one snapshot of the value at its path, handed
\* to the snapshot callback.
ReadServed(i) ==
  /\ calls[i].op \in ReadOps
  /\ calls[i].listening
  /\ LET snapshot == SnapshotAt(store, calls[i].path)
     IN calls' = [calls EXCEPT ![i] =
                    [Settle(@, OnSnapshot(@, snapshot))
                       EXCEPT !.snapshot = snapshot, !.reads = @ + 1,
                              !.listening = StaysSubscribed(calls[i])]]
  /\ UNCHANGED <<store, production, probe, page, admin, runs>>

\* The store applies a pending write and acknowledges it.
WriteServed(i) ==
  /\ calls[i].op = "savePropertyData"
  /\ calls[i].listening
  /\ store' = SetAt(store, calls[i].path, calls[i].data)
  /\ calls' = [calls EXCEPT ![i] = [Settle(@, savePropertyDataThen)
                                     EXCEPT !.writes = @ + 1, !.listening = FALSE]]
  /\ UNCHANGED <<production, probe, page, admin, runs>>

\* The store reports a transport failure for a request it still holds; the
\* request ends with it.
TransportFailure(i, error) ==
  /\ calls[i].listening
  /\ calls' = [calls EXCEPT ![i] = [Settle(@, OnFailure(@, error))
                                     EXCEPT !.failure = error, !.listening = FALSE]]
  /\ UNCHANGED <<store, production, probe, page, admin, runs>>

Next ==
  \/ getAllProperties
  \/ \E state \in StateArgs : getPropertiesByState(Str(state))
  \/ \E state \in StateArgs, propertyId \in PropertyArgs :
       getPropertyDetails(Str(state), Str(propertyId))
  \/ \E state \in StateArgs, property \in PropertyArgs, propertyData \in SavedRecords :
       savePropertyData(Str(state), Str(property), propertyData)
  \/ \E i \in DOMAIN calls : ReadServed(i)
  \/ \E i \in DOMAIN calls : WriteServed(i)
  \/ \E i \in DOMAIN calls, error \in TransportErrors : TransportFailure(i, error)

Spec == Init /\ [][Next]_vars

(***************************************************************************)
(* The pure functions applied to bounded inputs: each behaviour applies    *)
(* one function to one input.                                              *)
(***************************************************************************)
PureInit ==
  /\ store = EmptyStore
  /\ production = FALSE
  /\ calls = <<>>
  /\ probe = NoProbe
  /\ page = NoPage
  /\ admin = AdminIdle
  /\ runs = <<>>

ApplyMapPropertyId(x) ==
  /\ probe' = [fn |-> "mapPropertyId", x |-> x, out |-> mapPropertyId(Str(x))]
  /\ UNCHANGED <<store, production, calls, page, admin, runs>>

ApplyFormatState(x) ==
  /\ probe' = [fn |-> "formatState", x |-> x, out |-> formatState(Str(x))]
  /\ UNCHANGED <<store, production, calls, page, admin, runs>>

ApplyProcessPropertyData(propertyName, propertyDetails) ==
  /\ probe' = [fn |-> "processPropertyData", x |-> propertyName, raw |-> propertyDetails,
               out |-> processPropertyData(propertyName, propertyDetails),
               after |-> processPropertyDataEffect(propertyName, propertyDetails)]
  /\ UNCHANGED <<store, production, calls, page, admin, runs>>

ApplyFormatProperty(propertyId, propertyData) ==
  /\ mapPropertyId(Str(propertyId)).t = "string"
  /\ probe' = [fn |-> "formatProperty", x |-> propertyId, raw |-> propertyData,
               out |-> formatProperty(Str(propertyId), mapPropertyId(Str(propertyId)),
                                      propertyData),
               after |-> formatPropertyEffect(Str(propertyId), mapPropertyId(Str(propertyId)),
                                              propertyData)]
  /\ UNCHANGED <<store, production, calls, page, admin, runs>>

ApplyGetPropertiesByStatePath(state) ==
  /\ probe' = [fn |-> "getPropertiesByStatePath", x |-> state,
               out |-> getPropertiesByStatePath(Str(state))]
  /\ UNCHANGED <<store, production, calls, page, admin, runs>>

ApplyGetPropertyDetailsPath(state, propertyId) ==
  /\ probe' = [fn |-> "getPropertyDetailsPath", x |-> state, y |-> propertyId,
               out |-> getPropertyDetailsPath(Str(state), Str(propertyId))]
  /\ UNCHANGED <<store, production, calls, page, admin, runs>>

ApplyGetAllPropertiesOnValue(st) ==
  /\ probe' = [fn |-> "getAllProperties", raw |-> SnapshotAt(st, "properties"),
               out |-> getAllPropertiesOnValue(SnapshotAt(st, "properties"))]
  /\ UNCHANGED <<store, production, calls, page, admin, runs>>

ApplyGetPropertiesByStateOnValue(st, state) ==
  /\ probe' = [fn |-> "getPropertiesByState",
               raw |-> SnapshotAt(st, getPropertiesByStatePath(Str(state))),
               out |-> getPropertiesByStateOnValue(
                         SnapshotAt(st, getPropertiesByStatePath(Str(state))))]
  /\ UNCHANGED <<store, production, calls, page, admin, runs>>

\* Home links each state section to /state/{stateId}; StatePage passes the
\* route parameter to getPropertiesByState.
ApplyHomeToStatePage(st) ==
  LET all == getAllPropertiesOnValue(SnapshotAt(st, "properties")).value.m
  IN /\ probe' = [fn |-> "HomeToStatePage", store |-> st, all |-> all,
                  byState |-> [stateId \in DOMAIN all |->
                                 getPropertiesByStateOnValue(
                                   SnapshotAt(st, getPropertiesByStatePath(Str(stateId))))]]
     /\ UNCHANGED <<store, production, calls, page, admin, runs>>

\* StatePage links each listed property to /property/{stateId}/{propertyId};
\* PropertyDetail passes both route parameters to getPropertyDetails.
ApplyStatePageToDetail(st, stateId) ==
  LET listed == getPropertiesByStateOnValue(
                  SnapshotAt(st, getPropertiesByStatePath(Str(stateId)))).value.m
  IN /\ probe' = [fn |-> "StatePageToDetail", store |-> st, x |-> stateId,
                  listed |-> listed,
                  path |-> [propertyId \in DOMAIN listed |->
                              getPropertyDetailsPath(Str(stateId), Str(propertyId))],
                  read |-> [propertyId \in DOMAIN listed |->
                              SnapshotAt(st, getPropertyDetailsPath(Str(stateId),
                                                                    Str(propertyId)))]]
     /\ UNCHANGED <<store, production, calls, page, admin, runs>>

PureNext ==
  \/ probe = NoProbe /\ \E x \in AliasInputs : ApplyMapPropertyId(x)
  \/ probe = NoProbe /\ \E x \in AliasInputs : ApplyFormatState(x)
  \/ probe = NoProbe /\ \E propertyName \in StoreKeyNames, propertyDetails \in RawRecords :
       ApplyProcessPropertyData(propertyName, propertyDetails)
  \/ probe = NoProbe /\ \E propertyId \in RouteSlugs, propertyData \in RawRecords :
       ApplyFormatProperty(propertyId, propertyData)
  \/ probe = NoProbe /\ \E state \in AliasInputs : ApplyGetPropertiesByStatePath(state)
  \/ probe = NoProbe /\ \E state \in AliasInputs, propertyId \in AliasInputs :
       ApplyGetPropertyDetailsPath(state, propertyId)
  \/ probe = NoProbe /\ \E st \in SnapshotStores : ApplyGetAllPropertiesOnValue(st)
  \/ probe = NoProbe /\ \E st \in SnapshotStores, state \in {"maryland", "newJersey"} :
       ApplyGetPropertiesByStateOnValue(st, state)
  \/ probe = NoProbe /\ \E st \in SnapshotStores : ApplyHomeToStatePage(st)
  \/ probe = NoProbe /\ \E st \in SnapshotStores, stateId \in {"maryland", "newJersey"} :
       ApplyStatePageToDetail(st, stateId)

SpecPure == PureInit /\ [][PureNext]_vars

(***************************************************************************)
(* Properties of the normaliser and of alias resolution (SpecPure).        *)
(***************************************************************************)
Normalised == probe.fn \in {"processPropertyData", "formatProperty"}

StaffRoles == {"vp", "rem", "rsd", "ds", "pm"}

PropertyFields ==
  {"id", "name", "address", "description", "units", "yearBuilt", "renovated",
   "amenities", "contact", "staff", "images"}

\* Every canonical field of Property p is present and not undefined.
AllFieldsDefined(p) ==
  /\ DOMAIN p = PropertyFields
  /\ \A f \in PropertyFields \ {"contact", "staff"} : p[f] # Undef
  /\ DOMAIN p.contact = {"manager", "phone", "email"}
  /\ \A f \in DOMAIN p.contact : p.contact[f] # Undef
  /\ DOMAIN p.staff = StaffRoles
  /\ \A r \in StaffRoles :
       /\ DOMAIN p.staff[r] = {"name", "email"}
       /\ p.staff[r].name # Undef
       /\ p.staff[r].email # Undef

\* C1: for every raw record and every id/name hint, the Property built by
\* processPropertyData and by the normalisation inside getPropertyDetails has
\* every canonical field present and not undefined.
C1_EveryFieldDefined == Normalised => AllFieldsDefined(probe.out)

\* The record with no key at all, normalised to an all-default Property.
C1_Witness ==
  /\ probe.fn = "processPropertyData"
  /\ probe.raw = EmptyObj
  /\ AllFieldsDefined(probe.out)

Resolves(fn, table) ==
  probe.fn = fn /\ probe.x \notin DOMAIN table.o => probe.out = Str(probe.x)

\* C5: alias resolution passes every string that is not a key of the table
\* through unchanged, for both tables, and never yields a non-string.
C5_UnmappedPassThrough ==
  /\ Resolves("mapPropertyId", propertyIdMapping)
  /\ Resolves("formatState", stateMapping)
  /\ probe.fn \in {"mapPropertyId", "formatState"} => probe.out.t = "string"

\* C6: alias resolution is idempotent for both tables: resolving the result
\* of a resolution gives that result again.
C6_ResolutionIdempotent ==
  /\ probe.fn = "mapPropertyId" => mapPropertyId(probe.out) = probe.out
  /\ probe.fn = "formatState" => formatState(probe.out) = probe.out

\* A slug that the table renames to a different store key.
C6_Witness ==
  /\ probe.fn = "mapPropertyId"
  /\ probe.x = "the-flats"
  /\ probe.out = Str("flats")
  /\ mapPropertyId(probe.out) = Str("flats")

\* C10: images is ['/logo.png'] when the raw record has no images key and
\* when its images value is an empty sequence, and the raw images otherwise.
C10_ImagesDefault ==
  Normalised =>
    probe.out.images =
      IF "images" \notin DOMAIN probe.raw.o \/ probe.raw.o["images"] = Arr(<<>>)
        THEN PlaceholderImages
        ELSE probe.raw.o["images"]

(***************************************************************************)
(* Properties of the data access functions (Spec).                         *)
(***************************************************************************)
Call(i) == calls[i]

\* The store served call i with a snapshot.
Served(i) == Call(i).op \in ReadOps /\ Call(i).reads > 0

\* C2: a transport failure reported by the store for any of the four
\* operations rejects the promise with that error; the promise is never
\* resolved with a value.
C2_FailureRejects ==
  \A i \in DOMAIN calls :
    Call(i).failure # Undef =>
      Call(i).status = "rejected" /\ Call(i).value = Call(i).failure

C2_Witness ==
  \E i, j \in DOMAIN calls :
    /\ Call(i).op = "getPropertiesByState" /\ Call(j).op = "savePropertyData"
    /\ Call(i).failure = ErrorValue("NETWORK_ERROR") /\ Call(i).status = "rejected"
    /\ Call(j).failure = ErrorValue("PERMISSION_DENIED") /\ Call(j).status = "rejected"

\* C3: a collection read served with no value at its path resolves with the
\* empty mapping: it is neither rejected nor resolved with null.
C3_AbsentIsEmptyMapping ==
  \A i \in DOMAIN calls :
    /\ Call(i).op \in {"getAllProperties", "getPropertiesByState"}
    /\ Served(i)
    /\ ~Call(i).snapshot.exists
    => Call(i).status = "resolved" /\ Call(i).value = MappingValue(<<>>)

\* Both collection reads, the state one for an id the alias table lacks.
C3_Witness ==
  \E i, j \in DOMAIN calls :
    /\ Call(i).op = "getPropertiesByState" /\ Call(i).state = Str("Maryland")
    /\ Call(j).op = "getAllProperties"
    /\ \A k \in {i, j} : Served(k) /\ ~Call(k).snapshot.exists
                           /\ Call(k).value = MappingValue(<<>>)

\* C4: getPropertyDetails served with no record at its path resolves with
\* null in production and otherwise with a mock Property whose id is the
\* requested slug; it does not reject.
C4_AbsentRecord ==
  \A i \in DOMAIN calls :
    /\ Call(i).op = "getPropertyDetails"
    /\ Served(i)
    /\ ~Call(i).snapshot.exists
    => /\ Call(i).status = "resolved"
       /\ production => Call(i).value = Null
       /\ ~production => /\ Call(i).value.t = "Property"
                         /\ Call(i).value.p.id = Call(i).propertyId
                         /\ Call(i).value = PropertyValue(mockProperty(Call(i).propertyId))

C4_Witness ==
  \E i \in DOMAIN calls :
    /\ Call(i).op = "getPropertyDetails"
    /\ Served(i)
    /\ ~Call(i).snapshot.exists
    /\ ~production
    /\ Call(i).value.t = "Property"
    /\ Call(i).value.p.id = Str("the-flats")

\* Call i is a write that the store acknowledges in this step.
Acknowledged(i) ==
  /\ i \in DOMAIN calls
  /\ Call(i).op = "savePropertyData"
  /\ Call(i).status = "pending"
  /\ calls'[i].status = "resolved"

\* C7: when savePropertyData succeeds, a raw read of its path returns exactly
\* the record written: nothing of a record stored there before survives.
C7_SaveOverwrites ==
  [][\A i \in DOMAIN calls :
       Acknowledged(i) =>
         SnapshotAt(store', Call(i).path) = [exists |-> TRUE, val |-> Call(i).data]]_vars

\* Two acknowledged writes of different records to one path.
C7_Witness ==
  /\ Len(calls) = 2
  /\ \A i \in {1, 2} : Call(i).op = "savePropertyData" /\ Call(i).status = "resolved"
  /\ Call(1).path = Call(2).path
  /\ DOMAIN Call(1).data.o \ DOMAIN Call(2).data.o # {}
  /\ SnapshotAt(store, Call(2).path).val = Call(2).data

\* C8, as stated: savePropertyData writes at the alias-resolved path, the
\* path getPropertyDetails reads for the same (state, propertyId).
C8_SaveAtResolvedPath ==
  \A i \in DOMAIN calls :
    Call(i).op = "savePropertyData" =>
      Call(i).path = getPropertyDetailsPath(Call(i).state, Call(i).propertyId)

\* C8, amended: savePropertyData writes the record under the state and
\* property key exactly as passed, with no alias resolution; that is the
\* path getPropertyDetails reads when alias resolution changes neither.
C8_SaveAtLiteralPath ==
  [][\A i \in DOMAIN calls :
       Acknowledged(i) =>
         LET state == Call(i).state.s
             property == Call(i).propertyId.s
         IN /\ state \in DOMAIN store'
            /\ property \in DOMAIN store'[state]
            /\ store'[state][property] = Call(i).data
            /\ (formatState(Call(i).state) = Call(i).state
                  /\ mapPropertyId(Call(i).propertyId) = Call(i).propertyId)
               => getPropertyDetailsPath(Call(i).state, Call(i).propertyId) = Call(i).path]_vars

\* A record saved under a frontend (state id, slug) pair lies under those
\* literal keys, and a read of the same pair finds nothing at the resolved
\* path.
C8_Witness ==
  \E i, j \in DOMAIN calls :
    /\ Call(i).op = "savePropertyData" /\ Call(i).status = "resolved"
    /\ Call(i).state = Str("maryland") /\ Call(i).propertyId = Str("the-flats")
    /\ "maryland" \in DOMAIN store /\ "the-flats" \in DOMAIN store["maryland"]
    /\ store["maryland"]["the-flats"] = Call(i).data
    /\ "Maryland" \notin DOMAIN store
    /\ Call(j).op = "getPropertyDetails"
    /\ Call(j).state = Call(i).state /\ Call(j).propertyId = Call(i).propertyId
    /\ Served(j) /\ ~Call(j).snapshot.exists

\* The name the claim expects for a record read under `slug`.
ExpectedName(raw, slug) ==
  IF "name" \in DOMAIN raw.o THEN raw.o["name"] ELSE Str(TitleCase(slug))

\* C9: every read operation returns the raw record's name when it has one,
\* and otherwise the title-cased slug.
C9_NameFromRecord ==
  \A i \in DOMAIN calls :
    Served(i) /\ Call(i).snapshot.exists /\ Call(i).status = "resolved" =>
      CASE Call(i).op = "getPropertyDetails" ->
             Call(i).value.p.name = ExpectedName(Call(i).snapshot.val, Call(i).propertyId.s)
        [] Call(i).op = "getPropertiesByState" ->
             \A id \in DOMAIN Call(i).value.m :
               \E key \in DOMAIN Call(i).snapshot.val.o :
                 Call(i).value.m[id].name = ExpectedName(Call(i).snapshot.val.o[key], id)
        [] OTHER ->
             \A s \in DOMAIN Call(i).value.m : \A id \in DOMAIN Call(i).value.m[s] :
               \E state \in DOMAIN Call(i).snapshot.val.o :
                 \E key \in DOMAIN Call(i).snapshot.val.o[state].o :
                   Call(i).value.m[s][id].name =
                     ExpectedName(Call(i).snapshot.val.o[state].o[key], id)

\* The mapping a collection read resolved by call i holds for store state
\* `state`, when call i read that state.
ListingOf(i, state) ==
  IF Call(i).op = "getPropertiesByState"
    THEN IF Call(i).path = "properties/" \o state THEN Call(i).value.m ELSE <<>>
    ELSE IF toLowerCase(state) \in DOMAIN Call(i).value.m
           THEN Call(i).value.m[toLowerCase(state)]
           ELSE <<>>

\* Calls i (a collection read) and j (getPropertyDetails) were both served
\* the store record at state/key.
SameRecordServed(i, j, state, key) ==
  /\ Call(i).op \in {"getAllProperties", "getPropertiesByState"}
  /\ Call(j).op = "getPropertyDetails"
  /\ Served(i) /\ Served(j)
  /\ Call(i).status = "resolved" /\ Call(j).status = "resolved"
  /\ Call(j).snapshot.exists
  /\ Call(j).path = "properties/" \o state \o "/" \o key
  /\ ListingOf(i, state) # <<>>
  /\ Call(i).op = "getAllProperties" => state \in DOMAIN Call(i).snapshot.val.o
  /\ LET records == IF Call(i).op = "getAllProperties"
                      THEN Call(i).snapshot.val.o[state].o
                      ELSE Call(i).snapshot.val.o
     IN key \in DOMAIN records /\ records[key] = Call(j).snapshot.val

\* C11: a store record is assigned the same id by every read operation: the
\* id getPropertyDetails returns for a record is an id under which
\* getPropertiesByState and getAllProperties list the records of its state,
\* and the only one when the state holds that record alone.
C11_StableId ==
  \A i, j \in DOMAIN calls : \A state \in DOMAIN store :
    \A key \in DOMAIN store[state] :
      SameRecordServed(i, j, state, key) =>
        Call(j).value.p.id.s \in DOMAIN ListingOf(i, state)

(***************************************************************************)
(* Defaults and carry-over of the normaliser (SpecPure).                   *)
(***************************************************************************)
\* The raw keys the normaliser carries over, with their canonical fields.
CarriedKeys ==
  {"address", "description", "unit", "yearBuilt", "renovated", "amenities", "phone",
   "images"}

OptionalKeys == CarriedKeys \cup StaffRoles

\* The canonical field of Property p that raw key k is carried into.
CanonicalField(p, k) ==
  CASE k = "unit" -> p.units
    [] k = "phone" -> p.contact.phone
    [] OTHER -> p[k]

\* An empty value: the empty string, the number 0, the empty sequence.
IsEmptyValue(v) == v \in {Str(""), Num(0), Arr(<<>>)}

NoStaff == [name |-> Str(""), email |-> Str("")]

\* Property p, its id and name aside, is the all-default Property.
AllDefault(p) ==
  /\ \A f \in {"address", "description", "units", "yearBuilt", "renovated"} : p[f] = Str("")
  /\ p.amenities = Arr(<<>>)
  /\ p.images = Arr(<<"/logo.png">>)
  /\ p.contact = [manager |-> Str(""), phone |-> Str(""), email |-> Str("")]
  /\ p.staff = [r \in StaffRoles |-> NoStaff]

RoleField(raw, r, f) ==
  IF r \in DOMAIN raw.o /\ f \in DOMAIN raw.o[r].o THEN raw.o[r].o[f] ELSE Str("")

\* C13: contact.manager is the pm role's name and contact.email the pm
\* role's email when the raw record has a pm role, both '' when it has none;
\* staff.pm holds the same pair, and the other four staff roles are those of
\* the raw record whatever pm is.
C13_ContactFromPm ==
  Normalised =>
    /\ probe.out.contact.manager = RoleField(probe.raw, "pm", "name")
    /\ probe.out.contact.email = RoleField(probe.raw, "pm", "email")
    /\ probe.out.staff.pm = [name |-> probe.out.contact.manager,
                             email |-> probe.out.contact.email]
    /\ \A r \in StaffRoles \ {"pm"} :
         probe.out.staff[r] = [name |-> RoleField(probe.raw, r, "name"),
                               email |-> RoleField(probe.raw, r, "email")]

\* A record with a full pm role and a vp role that has an email only.
C13_Witness ==
  /\ probe.fn = "processPropertyData"
  /\ DOMAIN probe.raw.o = {"pm", "vp"}
  /\ DOMAIN probe.raw.o["vp"].o = {"email"}
  /\ probe.out.contact.manager = Str("Sarah Thompson")
  /\ probe.out.contact.email = Str("sarah.thompson@example.com")
  /\ probe.out.staff.pm.name = Str("Sarah Thompson")
  /\ probe.out.staff.vp = [name |-> Str(""), email |-> Str("sarah.thompson@example.com")]
  /\ probe.out.staff.rem = NoStaff

\* C14: staff roles are defaulted field by field: a field the raw role has
\* is kept, whether or not its sibling is there, and a field missing from
\* the raw role, or a missing role, gives ''.
C14_FieldByFieldDefault ==
  Normalised =>
    \A r \in StaffRoles : \A f \in {"name", "email"} :
      IF r \in DOMAIN probe.raw.o /\ f \in DOMAIN probe.raw.o[r].o
        THEN probe.out.staff[r][f] = probe.raw.o[r].o[f]
        ELSE probe.out.staff[r][f] = Str("")

\* A record read by getPropertyDetails with a name-only rsd role and an
\* email-only ds role.
C14_Witness ==
  /\ probe.fn = "formatProperty"
  /\ DOMAIN probe.raw.o = {"rsd", "ds"}
  /\ DOMAIN probe.raw.o["rsd"].o = {"name"}
  /\ DOMAIN probe.raw.o["ds"].o = {"email"}
  /\ probe.out.staff.rsd = [name |-> Str("Sarah Thompson"), email |-> Str("")]
  /\ probe.out.staff.ds = [name |-> Str(""), email |-> Str("sarah.thompson@example.com")]
  /\ probe.out.staff.vp = NoStaff

(***************************************************************************)
(* The paths the reads address (SpecPure).                                 *)
(***************************************************************************)
\* The alias of x when x is a key of the table, x itself otherwise.
AliasOrSelf(table, x) == IF x \in DOMAIN table.o THEN table.o[x].s ELSE x

\* C15: getPropertyDetails(stateId, slug) reads exactly properties/{S}/{K}
\* and getPropertiesByState(stateId) exactly properties/{S}, where S is the
\* state alias of stateId when stateId is a key of the state table and
\* stateId itself otherwise, and K likewise for slug and the property table.
C15_ReadPaths ==
  /\ probe.fn = "getPropertiesByStatePath" =>
       probe.out = "properties/" \o AliasOrSelf(stateMapping, probe.x)
  /\ probe.fn = "getPropertyDetailsPath" =>
       probe.out = "properties/" \o AliasOrSelf(stateMapping, probe.x)
                     \o "/" \o AliasOrSelf(propertyIdMapping, probe.y)

(***************************************************************************)
(* One read and one settlement per invocation; independence of calls       *)
(* (Spec).                                                                 *)
(***************************************************************************)
Settled(call) == call.status # "pending"

\* C16: each invocation of a read operation is served at most one snapshot,
\* and its promise settles exactly once: a settled read was either served
\* one snapshot or failed, never both, and once settled its status and value
\* never change, whatever is written to the store at its path afterwards.
C16_OneReadOneSettlement ==
  [][/\ \A i \in DOMAIN calls' :
          calls'[i].op \in ReadOps =>
            /\ calls'[i].reads <= 1
            /\ Settled(calls'[i]) => (calls'[i].reads = 1) # (calls'[i].failure # Undef)
            /\ ~Settled(calls'[i]) => calls'[i].reads = 0 /\ calls'[i].failure = Undef
     /\ \A i \in DOMAIN calls :
          Call(i).op \in ReadOps /\ Settled(Call(i)) =>
            /\ calls'[i].status = Call(i).status
            /\ calls'[i].value = Call(i).value
            /\ calls'[i].reads = Call(i).reads]_vars

\* A state listing resolved from the store without the state, and a record
\* written under that state afterwards: the listing resolved stays as it was.
C16_Witness ==
  /\ Len(calls) = 2
  /\ Call(1).op = "getPropertiesByState" /\ Call(1).status = "resolved"
  /\ Call(1).reads = 1 /\ ~Call(1).snapshot.exists
  /\ Call(1).value = MappingValue(<<>>)
  /\ Call(2).op = "savePropertyData" /\ Call(2).status = "resolved"
  /\ SnapshotAt(store, Call(1).path).exists
  /\ SnapshotAt(store, Call(1).path) # Call(1).snapshot

(***************************************************************************)
(* Keys of the mappings the collection reads resolve with (SpecPure).      *)
(***************************************************************************)
\* String k is string s with every upper-case letter replaced by its
\* lower-case form.
IsLowerCasedFormOf(k, s) ==
  /\ Len(k) = Len(s)
  /\ \A n \in 1..Len(s) : SubSeq(k, n, n) = toLowerChar(SubSeq(s, n, n))

HasNoUpperCase(k) == \A n \in 1..Len(k) : IndexIn(UpperLetters, SubSeq(k, n, n)) = 0

\* C17: every top-level key of the mapping getAllProperties resolves with is
\* the lower-cased form of a state name of the store snapshot, and no key
\* contains an upper-case character.
C17_StateKeysLowerCased ==
  probe.fn = "getAllProperties" =>
    \A k \in DOMAIN probe.out.value.m :
      /\ HasNoUpperCase(k)
      /\ probe.raw.exists
      /\ \E s \in DOMAIN probe.raw.val.o : IsLowerCasedFormOf(k, s)

\* A store with records under 'Maryland' and 'New Jersey'.
C17_Witness ==
  /\ probe.fn = "getAllProperties"
  /\ probe.raw.exists
  /\ DOMAIN probe.raw.val.o = {"Maryland", "New Jersey"}
  /\ DOMAIN probe.out.value.m = {"maryland", "new jersey"}

\* C18: in the mappings getPropertiesByState and getAllProperties resolve
\* with, every entry is keyed by the id of the Property it holds.
C18_KeyedByOwnId ==
  /\ probe.fn = "getPropertiesByState" =>
       \A id \in DOMAIN probe.out.value.m : probe.out.value.m[id].id = Str(id)
  /\ probe.fn = "getAllProperties" =>
       \A s \in DOMAIN probe.out.value.m : \A id \in DOMAIN probe.out.value.m[s] :
         probe.out.value.m[s][id].id = Str(id)

\* A state listing of the store keys 'Yorkshire Apts' and 'parcCherry'.
C18_Witness ==
  /\ probe.fn = "getPropertiesByState"
  /\ probe.raw.exists
  /\ DOMAIN probe.raw.val.o = {"Yorkshire Apts", "parcCherry"}
  /\ DOMAIN probe.out.value.m = {"yorkshire-apts", "parccherry"}
  /\ probe.out.value.m["yorkshire-apts"].id = Str("yorkshire-apts")
  /\ probe.out.value.m["yorkshire-apts"].name = Str("Yorkshire Apts")

ServedNow(i) == calls'[i].reads = Call(i).reads + 1

\* C20: concurrent calls are independent under every interleaving: a read
\* settles with the outcome of its own callback on the store content at the
\* instant it is served, writes not yet applied excluded, and a step that
\* serves or fails one call leaves every other call as it was.
C20_CallsIndependent ==
  [][\A i \in DOMAIN calls :
       /\ Call(i).op \in ReadOps /\ ServedNow(i) =>
            LET outcome == OnSnapshot(Call(i), SnapshotAt(store, Call(i).path))
            IN /\ calls'[i].status = outcome.status
               /\ calls'[i].value = outcome.value
       /\ calls'[i] # Call(i) => \A j \in DOMAIN calls \ {i} : calls'[j] = Call(j)]_vars

\* A read of Maryland/flats issued first, a write to that path issued while
\* the read is pending and applied before the read is served: the read
\* resolves with the record written.
C20_Witness ==
  /\ Len(calls) = 2
  /\ Call(1).op = "getPropertyDetails" /\ Call(1).status = "resolved"
  /\ Call(2).op = "savePropertyData" /\ Call(2).status = "resolved"
  /\ Call(1).path = Call(2).path
  /\ Call(1).snapshot = [exists |-> TRUE, val |-> Call(2).data]
  /\ Call(1).value = PropertyValue(formatProperty(Call(1).propertyId,
                                                  Call(1).mappedPropertyId, Call(2).data))

(***************************************************************************)
(* Type of units; contact and staff.pm of getPropertyDetails.              *)
(***************************************************************************)
\* C29: units of every normalised Property is a string: the string form of
\* the raw unit when that is a number, and '' when the raw record has no
\* unit.
C29_UnitsIsString ==
  Normalised =>
    /\ probe.out.units.t = "string"
    /\ "unit" \notin DOMAIN probe.raw.o => probe.out.units = Str("")
    /\ "unit" \in DOMAIN probe.raw.o /\ probe.raw.o["unit"].t = "number" =>
         probe.out.units = Str(JSString(probe.raw.o["unit"]))

\* C30: every Property getPropertyDetails resolves with, the development
\* mock included, has contact.manager equal to staff.pm.name and
\* contact.email equal to staff.pm.email.
C30_ContactIsPm ==
  \A i \in DOMAIN calls :
    /\ Call(i).op = "getPropertyDetails"
    /\ Call(i).status = "resolved"
    /\ Call(i).value # Null
    => /\ Call(i).value.p.contact.manager = Call(i).value.p.staff.pm.name
       /\ Call(i).value.p.contact.email = Call(i).value.p.staff.pm.email

(***************************************************************************)
(* Routing round trips and record counts of the collection reads           *)
(* (SpecPure).                                                             *)
(***************************************************************************)
\* C22: every state id getAllProperties emits as a top-level key, passed to
\* getPropertiesByState against the same store, yields the properties of
\* the entry under that key.
C22_StateIdRoundTrip ==
  probe.fn = "HomeToStatePage" =>
    \A stateId \in DOMAIN probe.all :
      probe.byState[stateId] = Resolved(MappingValue(probe.all[stateId]))

\* C23: every property id getPropertiesByState(s) returns as a key, passed
\* to getPropertyDetails(s, id) against the same store, makes it read the
\* store record the listed Property was built from, the record under the
\* store key the Property is named after, and never a missing path.
C23_PropertyIdRoundTrip ==
  probe.fn = "StatePageToDetail" =>
    \A propertyId \in DOMAIN probe.listed :
      LET records == probe.store[formatState(Str(probe.x)).s]
          key == probe.listed[propertyId].name.s
      IN /\ probe.read[propertyId].exists
         /\ probe.read[propertyId].val = records[key]
         /\ probe.path[propertyId] =
              "properties/" \o formatState(Str(probe.x)).s \o "/" \o key

\* The records the store holds in a snapshot of all states.
RecordsIn(val) == UNION {{<<s, k>> : k \in DOMAIN val.o[s].o} : s \in DOMAIN val.o}

\* The Properties a getAllProperties result holds.
PropertiesIn(m) == UNION {{<<s, id>> : id \in DOMAIN m[s]} : s \in DOMAIN m}

\* C24: collection reads lose no record: getPropertiesByState returns as
\* many Properties as the state has records in the store, getAllProperties
\* as many as the store has records in all states.
C24_NoRecordLost ==
  /\ probe.fn = "getPropertiesByState" /\ probe.raw.exists =>
       Cardinality(DOMAIN probe.out.value.m) = Cardinality(DOMAIN probe.raw.val.o)
  /\ probe.fn = "getAllProperties" /\ probe.raw.exists =>
       Cardinality(PropertiesIn(probe.out.value.m)) = Cardinality(RecordsIn(probe.raw.val))

(***************************************************************************)
(* The page components Home, StatePage (two versions) and PropertyDetail:  *)
(* on mount and on every change of the route parameters an effect starts   *)
(* a fetch and, when the fetch settles, installs its outcome in the        *)
(* component state.  `current` is the fetch started for the parameters the *)
(* page has now, `awaiting` the fetches whose continuation has not run,    *)
(* `dataFrom` the fetch whose result is displayed (0: the initial value).  *)
(***************************************************************************)
PageComponents == {"Home", "StatePage", "StatePageFirst", "PropertyDetail"}

PageStateIds == {"maryland", "newJersey"}

PagePropertyIds == {"the-flats", "parc-at-cherry-hill"}

\* useState({}) of Home and StatePage, useState(null) of PropertyDetail.
InitialData(component) ==
  IF component = "PropertyDetail" THEN Null ELSE MappingValue(<<>>)

\* The read an effect run starts for the route parameters.
FetchCall(component, stateId, propertyId) ==
  CASE component = "Home" ->
         NewCall("getAllProperties", Undef, Undef, Undef, Undef, "properties")
    [] component \in {"StatePage", "StatePageFirst"} ->
         NewCall("getPropertiesByState", stateId, Undef, Undef, Undef,
                 getPropertiesByStatePath(stateId))
    [] component = "PropertyDetail" ->
         NewCall("getPropertyDetails", stateId, propertyId, Undef,
                 mapPropertyId(propertyId), getPropertyDetailsPath(stateId, propertyId))

\* The message a component stores when its fetch rejects.
ErrorMessage(component, stateId) ==
  CASE component = "Home" ->
         Str("Failed to load property data. Please try refreshing the page.")
    [] component = "StatePage" -> Str("Failed to load properties for this state.")
    [] component = "StatePageFirst" ->
         Str("Failed to load properties for " \o JSString(stateId)
               \o ". Please try again later.")
    [] component = "PropertyDetail" -> Str("Failed to load property details.")

\* A component whose effect installs a result only while the route
\* parameters are those the fetch was started for.
InstallsResultGuarded(pg, i) == i = pg.current

\* The continuation of `await`: it runs whatever the route parameters are
\* by now; the effect returns no cleanup and keeps no flag.
InstallsResult(pg, i) == TRUE

\* The component is first rendered and its effect runs.
Mount(component, stateId, propertyId) ==
  /\ page = NoPage
  /\ Len(calls) < MaxCalls
  /\ calls' = Append(calls, FetchCall(component, stateId, propertyId))
  /\ page' = [component |-> component, stateId |-> stateId, propertyId |-> propertyId,
              data |-> InitialData(component), loading |-> TRUE, error |-> Null,
              current |-> Len(calls) + 1, awaiting |-> {Len(calls) + 1}, dataFrom |-> 0]
  /\ UNCHANGED <<store, production, probe, admin, runs>>

\* The route parameters change: the component renders again and its effect,
\* which depends on them, runs again.
Navigate(stateId, propertyId) ==
  /\ page.component \in {"StatePage", "StatePageFirst", "PropertyDetail"}
  /\ <<stateId, propertyId>> # <<page.stateId, page.propertyId>>
  /\ Len(calls) < MaxCalls
  /\ calls' = Append(calls, FetchCall(page.component, stateId, propertyId))
  /\ page' = [page EXCEPT !.stateId = stateId, !.propertyId = propertyId,
                          !.loading = TRUE,
                          !.error = IF page.component = "StatePageFirst" THEN @ ELSE Null,
                          !.current = Len(calls) + 1,
                          !.awaiting = @ \cup {Len(calls) + 1}]
  /\ UNCHANGED <<store, production, probe, admin, runs>>

\* The continuation of a fetch that settled: try / catch / finally.
Resume(i) ==
  /\ page # NoPage
  /\ i \in page.awaiting
  /\ calls[i].status # "pending"
  /\ page' =
       IF ~InstallsResult(page, i) THEN [page EXCEPT !.awaiting = @ \ {i}]
       ELSE IF calls[i].status = "resolved"
         THEN [page EXCEPT !.data = calls[i].value, !.dataFrom = i, !.loading = FALSE,
                           !.awaiting = @ \ {i}]
         ELSE [page EXCEPT !.error = ErrorMessage(page.component, calls[i].state),
                           !.loading = FALSE, !.awaiting = @ \ {i}]
  /\ UNCHANGED <<store, production, calls, probe, admin, runs>>

\* A continuation runs as soon as its promise has settled, before the store
\* delivers anything else.
NoContinuationDue ==
  IF page = NoPage THEN TRUE ELSE \A i \in page.awaiting : calls[i].status = "pending"

PageParams(component) ==
  CASE component = "Home" -> {<<Undef, Undef>>}
    [] component = "PropertyDetail" ->
         {<<Str(s), Str(p)>> : s \in PageStateIds, p \in PagePropertyIds}
    [] OTHER -> {<<Str(s), Undef>> : s \in PageStateIds}

PageNext ==
  \/ \E component \in PageComponents : \E params \in PageParams(component) :
       Mount(component, params[1], params[2])
  \/ page # NoPage /\ \E params \in PageParams(page.component) :
       Navigate(params[1], params[2])
  \/ \E i \in DOMAIN calls : Resume(i)
  \/ NoContinuationDue /\ \E i \in DOMAIN calls : ReadServed(i)
  \/ NoContinuationDue /\ \E i \in DOMAIN calls, error \in TransportErrors :
       TransportFailure(i, error)

SpecPage == Init /\ [][PageNext]_vars

\* The fetch the page started as its i-th call of the service.
PageCall(i) == calls[i]

\* The page shows its error state (the render functions).
ShowsError(pg) ==
  IF pg.component = "PropertyDetail"
    THEN Truthy(pg.error) \/ ~Truthy(pg.data)
    ELSE Truthy(pg.error)

\* C21: if the route parameters change while a fetch is pending, the result
\* of that earlier fetch is never installed as the displayed data once the
\* parameters have changed.
C21_StaleResultDiscarded ==
  [][page # NoPage /\ page' # NoPage /\ page'.dataFrom # page.dataFrom =>
       page'.dataFrom = page.current]_vars

\* C28: once the fetch for the current route parameters has settled and its
\* continuation has run, the page is not loading, and it shows the error
\* state if and only if that fetch rejected.
C28_ErrorOfLatestFetch ==
  page # NoPage /\ page.awaiting = {} =>
    /\ ~page.loading
    /\ ShowsError(page) <=> PageCall(page.current).status = "rejected"

(***************************************************************************)
(* initializeTestData and the admin data initializer.  A run of            *)
(* initializeTestData keeps the writes it has issued and that the store    *)
(* has not answered (`pending`, as indices into testData) and the writes   *)
(* acknowledged so far, in the order of their acknowledgement (`log`).     *)
(***************************************************************************)
\* { name: ..., email: ... }
Staff(name, email) == Obj(("name" :> Str(name)) @@ ("email" :> Str(email)))

\* testData, in the order Object.entries walks it: the states and, within a
\* state, the property keys in the order written (no key is an array index).
testData == <<
  <<"Delaware", "westover-pointe",
    Obj(("name" :> Str("Westover Pointe")) @@
        ("address" :> Str("500 Westover Dr, New Castle, DE 19720")) @@
        ("unit" :> Str("216")) @@
        ("vp" :> Staff("Jane Smith", "jane.smith@example.com")) @@
        ("rem" :> Staff("Robert Johnson", "robert.johnson@example.com")) @@
        ("rsd" :> Staff("Emily Davis", "emily.davis@example.com")) @@
        ("ds" :> Staff("Michael Wilson", "michael.wilson@example.com")) @@
        ("pm" :> Staff("Sarah Thompson", "sarah.thompson@example.com")))>>,
  <<"Delaware", "hunters-crossing",
    Obj(("name" :> Str("Hunters Crossing")) @@
        ("address" :> Str("123 Hunters Way, Newark, DE 19711")) @@
        ("unit" :> Str("180")) @@
        ("vp" :> Staff("Thomas Walker", "thomas.walker@example.com")) @@
        ("rem" :> Staff("Jennifer Lee", "jennifer.lee@example.com")) @@
        ("rsd" :> Staff("David Brown", "david.brown@example.com")) @@
        ("ds" :> Staff("Melissa Green", "melissa.green@example.com")) @@
        ("pm" :> Staff("Richard Hill", "richard.hill@example.com")))>>,
  <<"Pennsylvania", "1869west",
    Obj(("name" :> Str("1869 West")) @@
        ("address" :> Str("1869 Chessland St #15, Pittsburgh, PA 15205")) @@
        ("unit" :> Str("150")) @@
        ("vp" :> Staff("Thomas Walker", "thomas.walker@example.com")) @@
        ("rem" :> Staff("Jennifer Lee", "jennifer.lee@example.com")) @@
        ("rsd" :> Staff("David Brown", "david.brown@example.com")) @@
        ("ds" :> Staff("Melissa Green", "melissa.green@example.com")) @@
        ("pm" :> Staff("Richard Hill", "richard.hill@example.com")))>>,
  <<"Pennsylvania", "214vine",
    Obj(("name" :> Str("214 Vine")) @@
        ("address" :> Str("214 Vine St, Philadelphia, PA 19106")) @@
        ("unit" :> Str("120")) @@
        ("vp" :> Staff("Karen Martinez", "karen.martinez@example.com")) @@
        ("rem" :> Staff("James Wilson", "james.wilson@example.com")) @@
        ("rsd" :> Staff("Patricia Taylor", "patricia.taylor@example.com")) @@
        ("ds" :> Staff("Joseph Anderson", "joseph.anderson@example.com")) @@
        ("pm" :> Staff("Linda Thomas", "linda.thomas@example.com")))>>,
  <<"New Jersey", "aspen-court",
    Obj(("name" :> Str("Aspen Court")) @@
        ("address" :> Str("2800 New Brunswick Ave, Piscataway, NJ 08854")) @@
        ("unit" :> Str("190")) @@
        ("vp" :> Staff("William Clark", "william.clark@example.com")) @@
        ("rem" :> Staff("Barbara Lewis", "barbara.lewis@example.com")) @@
        ("rsd" :> Staff("Charles White", "charles.white@example.com")) @@
        ("ds" :> Staff("Elizabeth Harris", "elizabeth.harris@example.com")) @@
        ("pm" :> Staff("Robert Brown", "robert.brown@example.com")))>>,
  <<"New Jersey", "cherry-hill-towers",
    Obj(("name" :> Str("Cherry Hill Towers")) @@
        ("address" :> Str("2145 NJ-38, Cherry Hill, NJ 08002")) @@
        ("unit" :> Str("250")) @@
        ("vp" :> Staff("Daniel Turner", "daniel.turner@example.com")) @@
        ("rem" :> Staff("Susan Martin", "susan.martin@example.com")) @@
        ("rsd" :> Staff("Kevin Johnson", "kevin.johnson@example.com")) @@
        ("ds" :> Staff("Lisa Wilson", "lisa.wilson@example.com")) @@
        ("pm" :> Staff("Brian Davis", "brian.davis@example.com")))>>,
  <<"Maryland", "iron-ridge",
    Obj(("name" :> Str("Iron Ridge")) @@
        ("address" :> Str("2950 Stone Gate Blvd, Elkton, MD 21921")) @@
        ("unit" :> Str("175")) @@
        ("vp" :> Staff("Mark Anderson", "mark.anderson@example.com")) @@
        ("rem" :> Staff("Nancy Thompson", "nancy.thompson@example.com")) @@
        ("rsd" :> Staff("George Rodriguez", "george.rodriguez@example.com")) @@
        ("ds" :> Staff("Donna Martinez", "donna.martinez@example.com")) @@
        ("pm" :> Staff("Edward Wilson", "edward.wilson@example.com")))>>,
  <<"Ohio", "millcroft",
    Obj(("name" :> Str("Millcroft")) @@
        ("address" :> Str("10 Commons Dr, Milford, OH 45150")) @@
        ("unit" :> Str("202")) @@
        ("vp" :> Staff("Paul Lewis", "paul.lewis@example.com")) @@
        ("rem" :> Staff("Michelle Clark", "michelle.clark@example.com")) @@
        ("rsd" :> Staff("Kenneth Walker", "kenneth.walker@example.com")) @@
        ("ds" :> Staff("Laura Harris", "laura.harris@example.com")) @@
        ("pm" :> Staff("Steven Young", "steven.young@example.com")))>>,
  <<"Virginia", "chesterfield-flats",
    Obj(("name" :> Str("Chesterfield Flats")) @@
        ("address" :> Str("100 Main Street, Richmond, VA 23235")) @@
        ("unit" :> Str("168")) @@
        ("vp" :> Staff("Anthony Turner", "anthony.turner@example.com")) @@
        ("rem" :> Staff("Kimberly Moore", "kimberly.moore@example.com")) @@
        ("rsd" :> Staff("Donald Hill", "donald.hill@example.com")) @@
        ("ds" :> Staff("Sharon Scott", "sharon.scott@example.com")) @@
        ("pm" :> Staff("Ronald Adams", "ronald.adams@example.com")))>>,
  <<"Indiana", "meridian-north",
    Obj(("name" :> Str("The Meridian North")) @@
        ("address" :> Str("2100 Westlane Rd, Indianapolis, IN 46260")) @@
        ("unit" :> Str("185")) @@
        ("vp" :> Staff("Carol Evans", "carol.evans@example.com")) @@
        ("rem" :> Staff("Raymond King", "raymond.king@example.com")) @@
        ("rsd" :> Staff("Sandra White", "sandra.white@example.com")) @@
        ("ds" :> Staff("Jerry Wright", "jerry.wright@example.com")) @@
        ("pm" :> Staff("Deborah Green", "deborah.green@example.com")))>>
>>

MaxRuns == 2

\* A loop that issues every write at once, without awaiting any.
WritesIssuedAfterNoAwait(log) == IF log = <<>> THEN 1..Len(testData) ELSE {}

\* for ... for ... await savePropertyData(...): once the writes of `log` are
\* acknowledged the loop issues the write of the next entry and no other;
\* after the last entry it issues none.
WritesIssuedAfter(log) == IF Len(log) < Len(testData) THEN {Len(log) + 1} ELSE {}

\* The path savePropertyData writes for entry w of testData.
SeedPath(w) == savePropertyDataPath(Str(testData[w][1]), Str(testData[w][2]))

NewRun ==
  [pending |-> WritesIssuedAfter(<<>>), log |-> <<>>, status |-> "running", error |-> Undef]

StatusInfo == [type |-> "info", message |-> "Initializing test data..."]

StatusSuccess == [type |-> "success", message |-> "Test data loaded successfully!"]

StatusError ==
  [type |-> "error", message |-> "Failed to load test data. See console for details."]

\* A click handler without the guard on the loading flag.
ClickIgnoredNever(a) == FALSE

\* if (loading) return; the button is also disabled={loading}.
ClickIgnored(a) == a.loading

\* handleInitializeData up to its await: a click on the button.
handleInitializeData ==
  /\ ~ClickIgnored(admin)
  /\ Len(runs) < MaxRuns
  /\ admin' = [loading |-> TRUE, status |-> StatusInfo]
  /\ runs' = Append(runs, NewRun)
  /\ UNCHANGED <<store, production, calls, probe, page>>

\* The store applies and acknowledges write w of run r; the loop goes on or
\* initializeTestData returns true and handleInitializeData resumes.
SeedWriteServed(r, w) ==
  /\ runs[r].status = "running"
  /\ w \in runs[r].pending
  /\ store' = SetAt(store, SeedPath(w), testData[w][3])
  /\ LET log == Append(runs[r].log, w)
         pending == (runs[r].pending \ {w}) \cup WritesIssuedAfter(log)
     IN /\ runs' = [runs EXCEPT ![r] =
                      [@ EXCEPT !.log = log, !.pending = pending,
                                !.status = IF pending = {} THEN "resolved" ELSE "running"]]
        /\ admin' = IF pending = {}
                      THEN [loading |-> FALSE, status |-> StatusSuccess]
                      ELSE admin
  /\ UNCHANGED <<production, calls, probe, page>>

\* The store reports a failure for write w of run r: savePropertyData
\* rejects, initializeTestData rethrows, handleInitializeData catches.
SeedWriteFailed(r, w, error) ==
  /\ runs[r].status = "running"
  /\ w \in runs[r].pending
  /\ runs' = [runs EXCEPT ![r] =
                [@ EXCEPT !.pending = {}, !.status = "rejected", !.error = error]]
  /\ admin' = [loading |-> FALSE, status |-> StatusError]
  /\ UNCHANGED <<store, production, calls, probe, page>>

\* The dismiss button shown with a success message: setStatus(null).
DismissStatus ==
  /\ admin.status # Null
  /\ admin.status.type = "success"
  /\ admin' = [admin EXCEPT !.status = Null]
  /\ UNCHANGED <<store, production, calls, probe, page, runs>>

SeedNext ==
  \/ handleInitializeData
  \/ \E r \in DOMAIN runs : \E w \in runs[r].pending : SeedWriteServed(r, w)
  \/ \E r \in DOMAIN runs : \E w \in runs[r].pending : \E error \in TransportErrors :
       SeedWriteFailed(r, w, error)
  \/ DismissStatus

SpecSeed == Init /\ [][SeedNext]_vars

(***************************************************************************)
(* Properties of initializeTestData and of the data initializer            *)
(* (SpecSeed).                                                             *)
(***************************************************************************)
Run(r) == runs[r]

\* Entry w of testData lies in store st exactly as seeded, at
\* properties/{state}/{propertyId}.
SeededIn(st, w) ==
  /\ testData[w][1] \in DOMAIN st
  /\ testData[w][2] \in DOMAIN st[testData[w][1]]
  /\ st[testData[w][1]][testData[w][2]] = testData[w][3]

\* C25: initializeTestData issues its writes one at a time in the order of
\* the bundle; when a write fails it rejects with that error, issues no
\* further write and leaves the earlier writes in place; when it resolves,
\* every entry of the bundle holds exactly its seeded record (every write
\* acknowledged is in place, and a run that resolved has them all
\* acknowledged).
C25_SequentialSeeding ==
  [][\A r \in DOMAIN runs' :
       LET run == runs'[r]
       IN /\ Cardinality(run.pending) <= 1
          /\ run.log = [w \in 1..Len(run.log) |-> w]
          /\ \A w \in 1..Len(run.log) : SeededIn(store', w)
          /\ run.status = "running" => run.pending = {Len(run.log) + 1}
          /\ run.status = "resolved" => run.pending = {} /\ Len(run.log) = Len(testData)
          /\ run.status = "rejected" =>
               /\ run.pending = {} /\ Len(run.log) < Len(testData)
               /\ run.error \in TransportErrors
               /\ r \in DOMAIN runs /\ Run(r).status = "running" =>
                    /\ run.log = Run(r).log
                    /\ store' = store
                    /\ \A error \in TransportErrors :
                         SeedWriteFailed(r, Len(run.log) + 1, error) => run.error = error]_vars

\* A run that failed on its third write, the two earlier ones in place, and
\* a later run that went through.
C25_Witness ==
  /\ Len(runs) = 2
  /\ Run(1).status = "rejected" /\ Run(1).log = <<1, 2>>
  /\ Run(1).error = ErrorValue("NETWORK_ERROR")
  /\ Run(2).status = "resolved" /\ Len(Run(2).log) = Len(testData)
  /\ \A w \in 1..Len(testData) : SeededIn(store, w)

\* The state ids of the navigation menu.
NavigationStateIds ==
  {"delaware", "indiana", "maryland", "newJersey", "ohio", "pennsylvania", "virginia"}

\* getPropertyDetails(stateId, slug), served from store st, resolves with a
\* Property that carries the fields of raw record `raw`.
DetailsShow(st, stateId, slug, raw) ==
  LET snapshot == SnapshotAt(st, getPropertyDetailsPath(Str(stateId), Str(slug)))
      outcome == getPropertyDetailsThen(Str(slug), mapPropertyId(Str(slug)), production,
                                        snapshot)
  IN /\ snapshot.exists
     /\ outcome.status = "resolved"
     /\ outcome.value # Null
     /\ outcome.value.p.id = Str(slug)
     /\ outcome.value.p.name = raw.o["name"]
     /\ outcome.value.p.address = raw.o["address"]
     /\ outcome.value.p.units = raw.o["unit"]
     /\ \A role \in StaffRoles :
          /\ outcome.value.p.staff[role].name = raw.o[role].o["name"]
          /\ outcome.value.p.staff[role].email = raw.o[role].o["email"]

\* C26: after initializeTestData succeeded, every seeded record is reached
\* through the frontend: there are a state id of the navigation menu and a
\* slug of the property alias table for which getPropertyDetails returns the
\* Property built from that record.
C26_SeededReachable ==
  (\E r \in DOMAIN runs : Run(r).status = "resolved") =>
    \A w \in 1..Len(testData) :
      \E stateId \in NavigationStateIds :
        /\ formatState(Str(stateId)) = Str(testData[w][1])
        /\ \E slug \in DOMAIN propertyIdMapping.o :
             /\ propertyIdMapping.o[slug] = Str(testData[w][2])
             /\ DetailsShow(store, stateId, slug, testData[w][3])

\* A run that succeeded on the empty store: '1869west' of Pennsylvania is
\* shown for /property/pennsylvania/1869-west.
C26_Witness ==
  /\ Len(runs) = 1
  /\ Run(1).status = "resolved"
  /\ DOMAIN store = {testData[w][1] : w \in 1..Len(testData)}
  /\ DetailsShow(store, "pennsylvania", "1869-west", testData[3][3])

InFlight(rs) == {r \in DOMAIN rs : rs[r].status = "running"}

\* C27: at most one run of initializeTestData is in flight at a time, and
\* when a run settles the loading flag is false and the status is success
\* if and only if the run resolved, error if and only if it rejected.
C27_OneRunAtATime ==
  [][/\ Cardinality(InFlight(runs')) <= 1
     /\ admin'.loading <=> InFlight(runs') # {}
     /\ \A r \in InFlight(runs) \ InFlight(runs') :
          /\ ~admin'.loading
          /\ admin'.status.type = "success" <=> runs'[r].status = "resolved"
          /\ admin'.status.type = "error" <=> runs'[r].status = "rejected"]_vars

\* A second run started after the first one failed, and itself succeeded.
C27_Witness ==
  /\ Len(runs) = 2
  /\ Run(1).status = "rejected" /\ Run(2).status = "resolved"
  /\ Len(Run(1).log) > 0
  /\ admin = [loading |-> FALSE, status |-> StatusSuccess]

====
